---- MODULE Spec2Model ----
\* Reward-claim / points-ledger subsystem of the tournament platform backend:
\* db.claimReward and the repository helpers it calls (config/database.js),
\* run by several concurrent requests against one relational store.
EXTENDS Integers, Sequences, FiniteSets, Bags, TLC

\* ---------------------------------------------------------------- bounds
MaxCalls == 2
MaxPoints == 1
MaxStock == 1

\* balances are counted in units of the reward's points_required
UnitCost == 1

\* ------------------------------------------------------------ identities
Users == {"u1", "u2"}
AbsentUser == "u0"
UserIds == Users \cup {AbsentUser}
Rewards == {"r1"}
AbsentReward == "r0"
RewardIds == Rewards \cup {AbsentReward}
Calls == 1..MaxCalls

VARIABLES supabase, users, rewards, user_rewards, user_activity, calls, db0,
          console, env, accounts, reqs, clock, presented, user_tournaments

vars == <<supabase, users, rewards, user_rewards, user_activity, calls, db0,
          console, env, accounts, reqs, clock, presented, user_tournaments>>
tables == <<users, rewards, user_rewards, user_activity>>
\* state of registration, login and token verification
authVars == <<env, accounts, reqs, clock, presented>>
\* state of the reward-claim engine that registration and login leave alone
claimVars == <<users, rewards, user_rewards, calls, db0>>

\* --------------------------------------------------------------- helpers
NoUserRow == [found |-> FALSE, points |-> 0]
NoRewardRow == [found |-> FALSE, points_required |-> 0, stock |-> 0, is_active |-> FALSE]

IdleCall == [pc |-> "idle", userId |-> AbsentUser, rewardId |-> AbsentReward,
             userRead |-> FALSE, rewardRead |-> FALSE,
             user |-> NoUserRow, reward |-> NoRewardRow,
             data |-> FALSE, userW |-> "none", stockW |-> "none",
             logged |-> "none", error |-> ""]

\* db.getUserById: the row of the users table, or no row
getUserById(id) ==
  IF id \in DOMAIN users
    THEN [found |-> TRUE, points |-> users[id].points]
    ELSE NoUserRow

\* supabase.from('rewards').select('*').eq('id', rewardId).single()
selectReward(id) ==
  IF id \in DOMAIN rewards
    THEN [found |-> TRUE, points_required |-> rewards[id].points_required,
          stock |-> rewards[id].stock, is_active |-> rewards[id].is_active]
    ELSE NoRewardRow

\* precheck without its stock check
precheck_noStockCheck(user, reward) ==
  IF ~user.found \/ ~reward.found THEN "User or reward not found"
  ELSE IF user.points < reward.points_required THEN "Insufficient points"
  ELSE ""

\* precheck refusing a balance equal to the cost
precheck_lessOrEqual(user, reward) ==
  IF ~user.found \/ ~reward.found THEN "User or reward not found"
  ELSE IF user.points <= reward.points_required THEN "Insufficient points"
  ELSE IF reward.stock <= 0 THEN "Reward out of stock"
  ELSE ""

\* the checks of claimReward between its reads and its first write;
\* "" means every check passed
\* precheck testing the stock before the balance
precheck_stockFirst(user, reward) ==
  IF ~user.found \/ ~reward.found THEN "User or reward not found"
  ELSE IF reward.stock <= 0 THEN "Reward out of stock"
  ELSE IF user.points < reward.points_required THEN "Insufficient points"
  ELSE ""

precheck(user, reward) ==
  IF ~user.found \/ ~reward.found THEN "User or reward not found"
  ELSE IF user.points < reward.points_required THEN "Insufficient points"
  ELSE IF reward.stock <= 0 THEN "Reward out of stock"
  ELSE ""

\* afterReads recording the failed check without throwing
afterReads_noThrow(call) ==
  LET e == precheck(call.user, call.reward) IN
  [call EXCEPT !.pc = "inserting", !.error = e]

\* the continuation of claimReward once both reads of Promise.all resolved
afterReads(call) ==
  LET e == precheck(call.user, call.reward) IN
  IF e = "" THEN [call EXCEPT !.pc = "inserting"]
  ELSE [call EXCEPT !.pc = "thrown", !.error = e]

\* the continuation of claimReward once both writes of Promise.all settled
afterWrites(call) ==
  IF call.pc = "updating" /\ call.userW = "ok" /\ call.stockW \in {"ok", "error"}
    THEN [call EXCEPT !.pc = "logging"]
    ELSE call

\* the value claimReward hands to updateUser
newPoints(call) == call.user.points - call.reward.points_required

\* the value claimReward writes to rewards.stock
newStock(call) == call.reward.stock - 1

\* the row claimReward inserts into user_rewards
claimRow(call) == [user_id |-> call.userId, reward_id |-> call.rewardId]

\* claimEntry with the cost as a positive delta
claimEntry_positiveDelta(call) ==
  [user_id |-> call.userId, reward_id |-> call.rewardId,
   activity_type |-> "reward_claim",
   points_change |-> call.reward.points_required]

\* the activity entry logActivity inserts for a claim
claimEntry(call) ==
  [user_id |-> call.userId, reward_id |-> call.rewardId,
   activity_type |-> "reward_claim",
   points_change |-> 0 - call.reward.points_required]

\* ------------------------------------- registration, login, tokens: data
MaxReqs == 2
MaxClock == 8
\* points given at registration
WelcomeBonus == 100
\* shortest accepted password
MinPassword == 6
\* password.length < 6, accepting one character less
tooShort_five(password) == Len(password) < MinPassword - 1
\* password.length < 6
tooShort(password) == Len(password) < MinPassword
\* token lifetime '7d', in days
ExpiresIn == 7
Reqs == 1..MaxReqs
\* the two backend variants: src/backend (controllers/auth.js, config/database.js,
\* authMiddleware) and the files of src/unnamed (part_004, part_000, auth)
Backends == {"backend", "unnamed"}

hash(password) == <<"bcrypt", password>>
compare(password, hashed) == hashed = hash(password)

null ==
  [id |-> "null", name |-> "", email |-> "", password |-> <<>>, role |-> "",
   points |-> 0, avatar |-> ""]
\* the development account of the mock store and of the seed data
AdminRow ==
  [id |-> "admin-mock-id", name |-> "admin", email |-> "admin@gmail.com",
   password |-> hash("Admin@123"), role |-> "admin", points |-> 1000, avatar |-> ""]

NoBody ==
  [username |-> "", name |-> "", email |-> "", password |-> "", role |-> "", points |-> 0,
   avatar |-> ""]
\* no user object in the response
NoJson == << >>
NoToken ==
  [wellFormed |-> FALSE, userId |-> "", role |-> "", iat |-> 0, nbf |-> 0, exp |-> 0,
   key |-> ""]
IdleReq ==
  [pc |-> "idle", op |-> "", userId |-> "", body |-> NoBody, existingUser |-> null, user |-> null,
   logged |-> "none", status |-> 0, error |-> "", token |-> NoToken, json |-> NoJson]
NoHeader == [scheme |-> "absent", token |-> NoToken]
NoPresented ==
  [by |-> "", header |-> NoHeader, at |-> 0, status |-> 0, error |-> "",
   user |-> [userId |-> "", role |-> ""], next |-> 0]

\* String.prototype.trim on the names of the model
trim(name) == IF name = "Neo " THEN "Neo" ELSE name

\* const { password: _, ...userWithoutPassword } = user
userWithoutPassword(user) == [f \in DOMAIN user \ {"password"} |-> user[f]]

\* email.toLowerCase().trim() on the addresses of the model
toLowerCaseTrim(email) ==
  CASE email = " Admin@Gmail.com" -> "admin@gmail.com"
    [] email = "Neo@X.io " -> "neo@x.io"
    [] OTHER -> email

\* the first row with this email, or null
getUserByEmail(email) ==
  LET hits == {i \in 1..Len(accounts) : accounts[i].email = email} IN
  IF hits = {} THEN null
  ELSE accounts[CHOOSE i \in hits : \A j \in hits : i <= j]

\* userData taking role and points from the request body
userData_fromBody(body) ==
  [id |-> "null",
   name |-> IF env.backend = "backend" THEN trim(body.username) ELSE body.username,
   email |-> IF env.backend = "backend" THEN toLowerCaseTrim(body.email) ELSE body.email,
   password |-> hash(body.password), role |-> body.role, points |-> body.points,
   avatar |-> ""]

\* the record register hands to createUser
userData(body) ==
  [id |-> "null",
   name |-> IF env.backend = "backend" THEN trim(body.username) ELSE body.username,
   email |-> IF env.backend = "backend" THEN toLowerCaseTrim(body.email) ELSE body.email,
   password |-> hash(body.password), role |-> "user", points |-> WelcomeBonus,
   avatar |-> ""]

\* the id the store gives a new row
newId ==
  IF supabase THEN "id" \o ToString(Len(accounts) + 1)
  ELSE IF env.backend = "backend" THEN "user-" \o ToString(Len(accounts) + 1)
  ELSE "mock-user-id"

\* JWT_SECRET of the controller and of the middleware
signingSecret ==
  IF env.JWT_SECRET # "" THEN env.JWT_SECRET
  ELSE IF env.backend = "backend" THEN "riyadah_elite_fallback_secret"
  ELSE "your-secret-key"
verifyingSecret ==
  IF env.JWT_SECRET # "" THEN env.JWT_SECRET
  ELSE IF env.backend = "backend" THEN "riyadah_elite_fallback_secret"
  ELSE "fallback_secret_key"

\* jwt.sign(payload, secret, { expiresIn: '7d' }), which sets no nbf (0 here),
\* and jwt.verify(token, secret): the signature, then nbf, then exp
sign(user, secret, now) ==
  [wellFormed |-> TRUE, userId |-> user.id, role |-> user.role,
   iat |-> now, nbf |-> 0, exp |-> now + ExpiresIn, key |-> secret]
verify(token, secret, now) ==
  IF ~token.wellFormed \/ token.key # secret THEN "JsonWebTokenError"
  ELSE IF token.nbf > now THEN "NotBeforeError"
  ELSE IF now >= token.exp THEN "TokenExpiredError"
  ELSE "decoded"

\* login answering an unknown email with its own status and message
loginFailure_enumerable(cause) ==
  IF cause = "no user" THEN [status |-> 404, error |-> "User not found"]
  ELSE [status |-> 401, error |-> "Invalid email or password"]

\* what login answers when the email is unknown and when the password is wrong
loginFailure(cause) ==
  IF env.backend = "backend"
  THEN [status |-> 401, error |-> "Invalid email or password"]
  ELSE [status |-> 401, error |-> "Invalid credentials"]

\* the users table after the migration of part_006: the password column is
\* named password_hash
migrated == \E i \in DOMAIN accounts : "password_hash" \in DOMAIN accounts[i]
renamed(row) ==
  [f \in (DOMAIN row \ {"password"}) \cup {"password_hash"} |->
     IF f = "password_hash" THEN row.password ELSE row[f]]

\* the user getUserById(id) returns for development when no store is configured
MockUser(id) ==
  [id |-> id, name |-> "MockUser", email |-> "user@example.com", role |-> "user",
   points |-> 100]

\* getUserById on the users table: select('*').eq('id', id).single() throws
\* when no row has the id; the mock store of src/backend answers null, the one
\* of part_000 a MockUser
getUser(id) ==
  LET hits == {i \in 1..Len(accounts) : accounts[i].id = id} IN
  IF hits # {} /\ (supabase \/ env.backend = "backend")
  THEN [kind |-> "row", row |-> accounts[CHOOSE i \in hits : TRUE]]
  ELSE IF supabase THEN [kind |-> "throw", row |-> null]
  ELSE IF env.backend = "backend" THEN [kind |-> "null", row |-> null]
  ELSE [kind |-> "row", row |-> MockUser(id)]

\* updates built from every field of the request body
updates_wholeBody(body) ==
  LET name == IF env.backend = "backend" THEN body.name ELSE body.username
      present == {f \in {"name", "avatar", "role", "points"} :
                    IF f = "name" THEN name # ""
                    ELSE IF f = "points" THEN body.points # 0 ELSE body[f] # ""} IN
  [f \in present |->
     IF f # "name" THEN body[f]
     ELSE IF env.backend = "backend" THEN trim(name) ELSE name]

\* the updates object of updateProfile: auth.js reads name and avatar, part_004
\* username and avatar; the name column of the model stands for both
updates(body) ==
  LET name == IF env.backend = "backend" THEN body.name ELSE body.username
      present == {f \in {"name", "avatar"} :
                    IF f = "name" THEN name # "" ELSE body.avatar # ""} IN
  [f \in present |->
     IF f = "avatar" THEN body.avatar
     ELSE IF env.backend = "backend" THEN trim(name) ELSE name]

\* { ...row, ...updates }
merge(row, upd) ==
  [f \in DOMAIN row \cup DOMAIN upd |-> IF f \in DOMAIN upd THEN upd[f] ELSE row[f]]

Tournaments == {"t1"}
tournamentEntry(userId, tournamentId) ==
  [user_id |-> userId, tournament_id |-> tournamentId, reward_id |-> "null",
   activity_type |-> "tournament_join", points_change |-> 10]

activityEntry(userId, activityType, pointsChange) ==
  [user_id |-> userId, reward_id |-> "null", activity_type |-> activityType,
   points_change |-> pointsChange]

\* no registration or login is served and nothing is presented; claimReward
\* reads none of these
NoAuth ==
  /\ env = << >>
  /\ accounts = << >>
  /\ reqs = << >>
  /\ clock = 0
  /\ presented = << >>
  /\ user_tournaments = {}

\* no claim in progress, the reward tables at rest
NoClaims ==
  /\ users = [u \in Users |-> [points |-> 0]]
  /\ rewards = [r \in Rewards |-> [points_required |-> UnitCost, stock |-> 0, is_active |-> TRUE]]
  /\ user_rewards = EmptyBag
  /\ calls = [c \in Calls |-> IdleCall]
  /\ db0 = [users |-> users, rewards |-> rewards]
  /\ user_tournaments = {}

\* ------------------------------------------------------------------ Init
Init ==
  /\ supabase \in BOOLEAN
  /\ users \in [Users -> [points : 0..MaxPoints]]
  \* the two users are interchangeable: u1 is the one with the larger balance
  /\ users["u1"].points >= users["u2"].points
  /\ rewards \in [Rewards -> [points_required : {UnitCost}, stock : 0..MaxStock,
                              is_active : {TRUE}]]
  /\ user_rewards = EmptyBag
  /\ user_activity = EmptyBag
  /\ calls = [c \in Calls |-> IdleCall]
  /\ db0 = [users |-> users, rewards |-> rewards]
  /\ console = EmptyBag
  /\ NoAuth

\* --------------------------------------------------------------- actions
Finished(c) == calls[c].pc \in {"returned", "thrown"}

\* a request enters claimReward(userId, rewardId)
Enter(c, u, r) ==
  /\ calls[c].pc = "idle"
  /\ \A d \in Calls : d < c => calls[d].pc # "idle"
  /\ calls' = [calls EXCEPT ![c] =
       IF supabase
         THEN [@ EXCEPT !.pc = "reading", !.userId = u, !.rewardId = r]
         ELSE [@ EXCEPT !.pc = "thrown", !.userId = u, !.rewardId = r,
                        !.error = "Database not configured"]]
  /\ UNCHANGED <<supabase, tables, db0, console, authVars, user_tournaments>>

claimReward(c, u, r) == Enter(c, u, r)

\* the same entry when requests are served strictly one after another
claimRewardSeq(c, u, r) ==
  /\ \A d \in Calls : d # c => calls[d].pc \in {"idle", "returned", "thrown"}
  /\ Enter(c, u, r)

\* the store answers this.getUserById(userId)
ReadUser(c) ==
  /\ calls[c].pc = "reading"
  /\ ~calls[c].userRead
  /\ LET row == getUserById(calls[c].userId) IN
     calls' = [calls EXCEPT ![c] =
       IF row.found
         THEN LET got == [@ EXCEPT !.userRead = TRUE, !.user = row] IN
              IF got.rewardRead THEN afterReads(got) ELSE got
         ELSE [@ EXCEPT !.pc = "thrown", !.error = "PGRST116"]]
  /\ UNCHANGED <<supabase, tables, db0, console, authVars, user_tournaments>>

\* the store answers the select on rewards
ReadReward(c) ==
  /\ calls[c].pc = "reading"
  /\ ~calls[c].rewardRead
  /\ LET row == selectReward(calls[c].rewardId) IN
     calls' = [calls EXCEPT ![c] =
       LET got == [@ EXCEPT !.rewardRead = TRUE, !.reward = row] IN
       IF got.userRead THEN afterReads(got) ELSE got]
  /\ UNCHANGED <<supabase, tables, db0, console, authVars, user_tournaments>>

\* the insert into user_rewards succeeds
InsertClaim(c) ==
  /\ calls[c].pc = "inserting"
  /\ user_rewards' = user_rewards (+) SetToBag({claimRow(calls[c])})
  /\ calls' = [calls EXCEPT ![c] =
       [@ EXCEPT !.pc = "updating", !.data = TRUE,
                 !.userW = "pending", !.stockW = "pending"]]
  /\ UNCHANGED <<supabase, users, rewards, user_activity, db0, console, authVars, user_tournaments>>

\* this.updateUser(userId, { points: ... }) succeeds
UpdateUser(c) ==
  /\ calls[c].pc = "updating"
  /\ calls[c].userW = "pending"
  /\ users' = [users EXCEPT ![calls[c].userId].points = newPoints(calls[c])]
  /\ calls' = [calls EXCEPT ![c] = afterWrites([@ EXCEPT !.userW = "ok"])]
  /\ UNCHANGED <<supabase, rewards, user_rewards, user_activity, db0, console, authVars, user_tournaments>>

\* the update of rewards.stock succeeds
UpdateStock(c) ==
  /\ calls[c].pc \in {"updating", "thrown"}
  /\ calls[c].stockW = "pending"
  /\ rewards' = [rewards EXCEPT ![calls[c].rewardId].stock = newStock(calls[c])]
  /\ calls' = [calls EXCEPT ![c] = afterWrites([@ EXCEPT !.stockW = "ok"])]
  /\ UNCHANGED <<supabase, users, user_rewards, user_activity, db0, console, authVars, user_tournaments>>

\* this.logActivity(...) inserts the entry, then claimReward returns data
LogActivity(c) ==
  /\ calls[c].pc = "logging"
  /\ user_activity' = user_activity (+) SetToBag({claimEntry(calls[c])})
  /\ calls' = [calls EXCEPT ![c] = [@ EXCEPT !.pc = "returned", !.logged = "ok"]]
  /\ UNCHANGED <<supabase, users, rewards, user_rewards, db0, console, authVars, user_tournaments>>

\* ------------------------------------------------- storage faults
\* the insert into user_rewards reports an error: claimReward throws it
InsertClaimError(c) ==
  /\ calls[c].pc = "inserting"
  /\ calls' = [calls EXCEPT ![c] = [@ EXCEPT !.pc = "thrown", !.error = "insert error"]]
  /\ UNCHANGED <<supabase, tables, db0, console, authVars, user_tournaments>>

\* updateUser throws: Promise.all rejects at once, the stock update stays in flight
UpdateUserError(c) ==
  /\ calls[c].pc = "updating"
  /\ calls[c].userW = "pending"
  /\ calls' = [calls EXCEPT ![c] =
       [@ EXCEPT !.pc = "thrown", !.userW = "error", !.error = "update error"]]
  /\ UNCHANGED <<supabase, tables, db0, console, authVars, user_tournaments>>

\* the stock update resolves with an error object, which claimReward never reads
UpdateStockError(c) ==
  /\ calls[c].pc \in {"updating", "thrown"}
  /\ calls[c].stockW = "pending"
  /\ calls' = [calls EXCEPT ![c] = afterWrites([@ EXCEPT !.stockW = "error"])]
  /\ UNCHANGED <<supabase, tables, db0, console, authVars, user_tournaments>>

\* LogActivityError dropping the failure without a console line
LogActivityError_silent(c) ==
  /\ calls[c].pc = "logging"
  /\ calls' = [calls EXCEPT ![c] = [@ EXCEPT !.pc = "returned", !.logged = "error"]]
  /\ UNCHANGED <<supabase, tables, db0, console, authVars, user_tournaments>>

\* the insert into user_activity fails: logActivity writes the error to
\* console.error and returns, and claimReward returns data
LogActivityError(c) ==
  /\ calls[c].pc = "logging"
  /\ calls' = [calls EXCEPT ![c] = [@ EXCEPT !.pc = "returned", !.logged = "error"]]
  /\ console' = console (+) SetToBag({"Activity logging error"})
  /\ UNCHANGED <<supabase, tables, db0, authVars, user_tournaments>>

\* -------------------------------------------------------- specifications
Steps ==
  \/ \E c \in Calls : ReadUser(c)
  \/ \E c \in Calls : ReadReward(c)
  \/ \E c \in Calls : InsertClaim(c)
  \/ \E c \in Calls : UpdateUser(c)
  \/ \E c \in Calls : UpdateStock(c)
  \/ \E c \in Calls : LogActivity(c)

Faults ==
  \/ \E c \in Calls : InsertClaimError(c)
  \/ \E c \in Calls : UpdateUserError(c)
  \/ \E c \in Calls : UpdateStockError(c)
  \/ \E c \in Calls : LogActivityError(c)

\* concurrent requests, a store that answers every request
Next ==
  \/ \E c \in Calls, u \in UserIds, r \in RewardIds : claimReward(c, u, r)
  \/ Steps

Spec == Init /\ [][Next]_vars

\* concurrent requests, a store whose writes may fail
NextFault ==
  \/ \E c \in Calls, u \in UserIds, r \in RewardIds : claimReward(c, u, r)
  \/ Steps
  \/ Faults

SpecFault == Init /\ [][NextFault]_vars

\* requests served one at a time, a store whose writes may fail
NextSeq ==
  \/ \E c \in Calls, u \in UserIds, r \in RewardIds : claimRewardSeq(c, u, r)
  \/ Steps
  \/ Faults

SpecSeq == Init /\ [][NextSeq]_vars

\* concurrent requests, a store whose user_activity inserts may fail
NextLogFault ==
  \/ \E c \in Calls, u \in UserIds, r \in RewardIds : claimReward(c, u, r)
  \/ Steps
  \/ \E c \in Calls : LogActivityError(c)

SpecLogFault == Init /\ [][NextLogFault]_vars

\* concurrent requests against a configured store whose rewards may have been
\* retired (is_active false)
InitRetired ==
  /\ supabase = TRUE
  /\ users \in [Users -> [points : 0..MaxPoints]]
  /\ users["u1"].points >= users["u2"].points
  /\ rewards \in [Rewards -> [points_required : {UnitCost}, stock : 0..MaxStock,
                               is_active : BOOLEAN]]
  /\ user_rewards = EmptyBag
  /\ user_activity = EmptyBag
  /\ calls = [c \in Calls |-> IdleCall]
  /\ db0 = [users |-> users, rewards |-> rewards]
  /\ console = EmptyBag
  /\ NoAuth

SpecRetired == InitRetired /\ [][Next]_vars

\* ---------------------------------- registration, login, tokens: actions
respond(req, status, error, token) ==
  [req EXCEPT !.pc = "done", !.status = status, !.error = error, !.token = token]
\* res.json with the user object
json(req, user) == [req EXCEPT !.json = userWithoutPassword(user)]

\* register up to its first await: validation and the lookup by the email as
\* it was sent
register(q, body) ==
  /\ reqs[q].pc = "idle"
  /\ \A p \in Reqs : p < q => reqs[p].pc # "idle"
  /\ LET req == [IdleReq EXCEPT !.op = "register", !.body = body]
         existingUser == getUserByEmail(body.email)
         b == env.backend = "backend" IN
     reqs' = [reqs EXCEPT ![q] =
       IF body.username = "" \/ body.email = "" \/ body.password = ""
       THEN respond(req, 400,
                    IF b THEN "Username, email, and password are required"
                    ELSE "All fields are required", NoToken)
       ELSE IF tooShort(body.password)
       THEN respond(req, 400, "Password must be at least 6 characters", NoToken)
       ELSE IF existingUser # null
       THEN respond([req EXCEPT !.existingUser = existingUser], 400,
                    IF b THEN "User already exists with this email"
                    ELSE "User already exists", NoToken)
       ELSE [req EXCEPT !.pc = "creating"]]
  /\ UNCHANGED <<supabase, user_activity, console, env, accounts, clock, presented, claimVars, user_tournaments>>

\* createUser: the users table refuses a second row with the same email, and
\* after the migration of part_006 a row with a password column; the
\* mock store of src/backend pushes the row; the mock store of part_000 only
\* returns it. part_004 then signs and answers, auth.js goes on to logActivity.
\* Only the email constraint of the table is modelled: every body carries the
\* same username or none.
RegisterCreate(q) ==
  /\ reqs[q].pc = "creating"
  /\ LET req == reqs[q]
         user == [userData(req.body) EXCEPT !.id = newId]
         taken == \E i \in 1..Len(accounts) : accounts[i].email = user.email IN
     IF supabase /\ (taken \/ migrated)
     THEN /\ reqs' = [reqs EXCEPT ![q] =
                 respond(req, 500,
                         IF env.backend = "backend"
                         THEN "Registration failed. Please try again."
                         ELSE "Internal server error", NoToken)]
          /\ console' = console (+) SetToBag({"Registration error"})
          /\ UNCHANGED accounts
     ELSE /\ accounts' = IF supabase \/ env.backend = "backend"
                         THEN Append(accounts, user) ELSE accounts
          /\ reqs' = [reqs EXCEPT ![q] =
                 IF env.backend = "backend"
                 THEN [req EXCEPT !.pc = "logging", !.user = user]
                 ELSE respond(json([req EXCEPT !.user = user], user), 201, "",
                              sign(user, signingSecret, clock))]
          /\ UNCHANGED console
  /\ UNCHANGED <<supabase, user_activity, env, clock, presented, claimVars, user_tournaments>>

\* logActivity replacing the log by the registration entry
RegisterLog_replacing(q) ==
  /\ reqs[q].pc = "logging" /\ reqs[q].op = "register"
  /\ user_activity' =
       IF supabase
       THEN SetToBag({activityEntry(reqs[q].user.id, "registration", WelcomeBonus)})
       ELSE user_activity
  /\ reqs' = [reqs EXCEPT ![q] =
       respond(json([@ EXCEPT !.logged = IF supabase THEN "ok" ELSE "none"], @.user), 201, "",
               sign(reqs[q].user, signingSecret, clock))]
  /\ UNCHANGED <<supabase, console, env, accounts, clock, presented, claimVars, user_tournaments>>

\* logActivity(user.id, 'registration', 'User registered', 100), then the
\* token and the 201 answer
RegisterLog(q) ==
  /\ reqs[q].pc = "logging" /\ reqs[q].op = "register"
  /\ user_activity' =
       IF supabase
       THEN user_activity (+) SetToBag({activityEntry(reqs[q].user.id, "registration", WelcomeBonus)})
       ELSE user_activity
  /\ reqs' = [reqs EXCEPT ![q] =
       respond(json([@ EXCEPT !.logged = IF supabase THEN "ok" ELSE "none"], @.user), 201, "",
               sign(reqs[q].user, signingSecret, clock))]
  /\ UNCHANGED <<supabase, console, env, accounts, clock, presented, claimVars, user_tournaments>>

\* login up to the password comparison; auth.js looks the email up lower-cased
\* and trimmed, part_004 as it was sent
login(q, body) ==
  /\ reqs[q].pc = "idle"
  /\ \A p \in Reqs : p < q => reqs[p].pc # "idle"
  /\ LET req == [IdleReq EXCEPT !.op = "login", !.body = body]
         b == env.backend = "backend"
         user == getUserByEmail(IF b THEN toLowerCaseTrim(body.email) ELSE body.email)
         \* bcrypt.compare(password, undefined) throws
         noHash == body.email # "" /\ body.password # "" /\ user # null
                     /\ "password" \notin DOMAIN user IN
     /\ console' = IF noHash THEN console (+) SetToBag({"Login error"}) ELSE console
     /\ reqs' = [reqs EXCEPT ![q] =
       IF body.email = "" \/ body.password = ""
       THEN respond(req, 400, "Email and password are required", NoToken)
       ELSE IF user = null
       THEN respond(req, loginFailure("no user").status,
                    loginFailure("no user").error, NoToken)
       ELSE IF noHash
       THEN respond(req, 500,
                    IF b THEN "Login failed. Please try again." ELSE "Internal server error",
                    NoToken)
       ELSE IF ~compare(body.password, user.password)
       THEN respond([req EXCEPT !.user = user], loginFailure("bad password").status,
                    loginFailure("bad password").error, NoToken)
       ELSE IF b THEN [req EXCEPT !.pc = "logging", !.user = user]
       ELSE respond(json([req EXCEPT !.user = user], user), 200, "",
                    sign(user, signingSecret, clock))]
  /\ UNCHANGED <<supabase, user_activity, env, accounts, clock, presented, claimVars, user_tournaments>>

\* logActivity(user.id, 'login', 'User logged in'), then the token and the
\* 200 answer
LoginLog(q) ==
  /\ reqs[q].pc = "logging" /\ reqs[q].op = "login"
  /\ user_activity' =
       IF supabase
       THEN user_activity (+) SetToBag({activityEntry(reqs[q].user.id, "login", 0)})
       ELSE user_activity
  /\ reqs' = [reqs EXCEPT ![q] =
       respond(json([@ EXCEPT !.logged = IF supabase THEN "ok" ELSE "none"], @.user), 200, "",
               sign(reqs[q].user, signingSecret, clock))]
  /\ UNCHANGED <<supabase, console, env, accounts, clock, presented, claimVars, user_tournaments>>

\* requests served one at a time
OneAtATime(q) == \A p \in Reqs : p # q => reqs[p].pc \in {"idle", "done"}
registerSeq(q, body) == OneAtATime(q) /\ register(q, body)
loginSeq(q, body) == OneAtATime(q) /\ login(q, body)

\* a day passes between two requests
Tick ==
  /\ clock < MaxClock
  /\ \A q \in Reqs : reqs[q].pc \in {"idle", "done"}
  /\ clock' = clock + 1
  /\ UNCHANGED <<supabase, user_activity, console, env, accounts, reqs, presented, claimVars, user_tournaments>>

\* the Authorization headers a client can send: none, a scheme without a
\* token, and Bearer with an issued token, a token signed with another key
\* that claims the admin role, a string that is no token, or a token of the
\* client's own making under the fallback secret
Issued == {reqs[q].token : q \in {p \in Reqs : reqs[p].token.wellFormed}}
Forged == {[t EXCEPT !.key = "attacker", !.role = "admin"] : t \in Issued}
Malformed == [NoToken EXCEPT !.key = "garbage"]
\* a token that is not active yet, signed with the fallback secret that the
\* source of the middleware spells out
NotYetValid ==
  [wellFormed |-> TRUE, userId |-> AdminRow.id, role |-> "admin", iat |-> 0,
   nbf |-> MaxClock + 1, exp |-> MaxClock + 1 + ExpiresIn,
   key |-> IF env.backend = "backend" THEN "riyadah_elite_fallback_secret"
           ELSE "fallback_secret_key"]
Headers ==
  {NoHeader, [scheme |-> "bare", token |-> NoToken]}
    \cup {[scheme |-> "bearer", token |-> t] :
            t \in Issued \cup Forged \cup {Malformed, NotYetValid}}

answer(by, h, status, error) ==
  [NoPresented EXCEPT !.by = by, !.header = h, !.at = clock, !.status = status,
                      !.error = error]
pass(by, h) ==
  [NoPresented EXCEPT !.by = by, !.header = h, !.at = clock,
                      !.user = [userId |-> h.token.userId, role |-> h.token.role],
                      !.next = 1]

\* authMiddleware of src/backend, on the one request a behaviour presents
authMiddleware(h) ==
  /\ env.backend = "backend"
  /\ presented = NoPresented
  /\ LET v == verify(h.token, verifyingSecret, clock) IN
     presented' =
       IF h.scheme = "absent" THEN answer("authMiddleware", h, 401, "No token provided")
       ELSE IF h.scheme = "bare" THEN answer("authMiddleware", h, 401, "Invalid token format")
       ELSE IF v = "decoded" THEN pass("authMiddleware", h)
       ELSE IF v = "JsonWebTokenError" THEN answer("authMiddleware", h, 401, "Invalid token")
       ELSE IF v = "TokenExpiredError" THEN answer("authMiddleware", h, 401, "Token expired")
       ELSE answer("authMiddleware", h, 500, "Token verification failed")
  /\ UNCHANGED <<supabase, user_activity, console, env, accounts, reqs, clock, claimVars, user_tournaments>>

\* auth of src/unnamed
auth(h) ==
  /\ env.backend = "unnamed"
  /\ presented = NoPresented
  /\ LET v == verify(h.token, verifyingSecret, clock) IN
     IF h.scheme \in {"absent", "bare"}
     THEN /\ presented' = answer("auth", h, 401, "Authentication required")
          /\ UNCHANGED console
     ELSE IF v = "decoded"
     THEN /\ presented' = pass("auth", h)
          /\ UNCHANGED console
     ELSE /\ presented' = answer("auth", h, 401, "Invalid token")
          /\ console' = console (+) SetToBag({"Auth middleware error"})
  /\ UNCHANGED <<supabase, user_activity, env, accounts, reqs, clock, claimVars, user_tournaments>>

\* adminAuth of src/unnamed: the token, its verification, then the role
adminAuth(h) ==
  /\ env.backend = "unnamed"
  /\ presented = NoPresented
  /\ LET v == verify(h.token, verifyingSecret, clock) IN
     IF h.scheme \in {"absent", "bare"}
     THEN /\ presented' = answer("adminAuth", h, 401, "Authentication required")
          /\ UNCHANGED console
     ELSE IF v # "decoded"
     THEN /\ presented' = answer("adminAuth", h, 401, "Invalid token")
          /\ console' = console (+) SetToBag({"Admin auth middleware error"})
     ELSE IF h.token.role # "admin"
     THEN /\ presented' = answer("adminAuth", h, 403, "Admin access required")
          /\ UNCHANGED console
     ELSE /\ presented' = pass("adminAuth", h)
          /\ UNCHANGED console
  /\ UNCHANGED <<supabase, user_activity, env, accounts, reqs, clock, claimVars, user_tournaments>>

\* adminMiddleware of src/backend, on the request authMiddleware has passed on
adminMiddleware ==
  /\ presented.by = "authMiddleware"
  /\ presented.next = 1
  /\ presented' =
       IF presented.user.role # "admin" /\ presented.user.role # "moderator"
       THEN [presented EXCEPT !.by = "adminMiddleware", !.status = 403,
                              !.error = "Admin access required"]
       ELSE [presented EXCEPT !.by = "adminMiddleware", !.next = 2]
  /\ UNCHANGED <<supabase, user_activity, console, env, accounts, reqs, clock, claimVars, user_tournaments>>

\* the claims of a token that the middleware of the backend accepts now
Verified == {t \in Issued : verify(t, verifyingSecret, clock) = "decoded"}

\* a request behind the middleware, served alone
serve(q, op, t, body) ==
  [IdleReq EXCEPT !.op = op, !.userId = t.userId, !.body = body]
Arrives(q) ==
  /\ reqs[q].pc = "idle"
  /\ \A p \in Reqs : p < q => reqs[p].pc # "idle"
  /\ OneAtATime(q)

\* getProfile
getProfile(q, t) ==
  /\ Arrives(q)
  /\ LET req == serve(q, "getProfile", t, NoBody)
         user == getUser(t.userId)
         b == env.backend = "backend" IN
     /\ reqs' = [reqs EXCEPT ![q] =
          IF user.kind = "throw"
          THEN respond(req, 500, IF b THEN "Failed to get profile" ELSE "Internal server error",
                       NoToken)
          ELSE IF user.kind = "null" THEN respond(req, 404, "User not found", NoToken)
          ELSE respond(json([req EXCEPT !.user = user.row], user.row), 200, "", NoToken)]
     /\ console' = IF user.kind = "throw"
                   THEN console (+) SetToBag({"Get profile error"}) ELSE console
  /\ UNCHANGED <<supabase, user_activity, env, accounts, clock, presented, claimVars, user_tournaments>>

\* updateProfile: db.updateUser(req.user.userId, updates), in auth.js followed
\* by logActivity(userId, 'profile_update', 'Profile updated')
updateProfile(q, t, body) ==
  /\ Arrives(q)
  /\ LET req == serve(q, "updateProfile", t, body)
         b == env.backend = "backend"
         hits == {i \in 1..Len(accounts) : accounts[i].id = t.userId}
         i == CHOOSE j \in hits : TRUE
         stored == supabase \/ b
         thrown == stored /\ hits = {}
         updatedUser == IF stored THEN merge(accounts[i], updates(body))
                        ELSE merge([id |-> t.userId], updates(body)) IN
     IF thrown
     THEN /\ reqs' = [reqs EXCEPT ![q] =
                 respond(req, 500,
                         IF b THEN "Failed to update profile" ELSE "Internal server error",
                         NoToken)]
          /\ console' = console (+) SetToBag({"Update profile error"})
          /\ UNCHANGED <<accounts, user_activity>>
     ELSE /\ accounts' = IF stored THEN [accounts EXCEPT ![i] = updatedUser] ELSE accounts
          /\ user_activity' =
               IF b /\ supabase
               THEN user_activity (+) SetToBag({activityEntry(t.userId, "profile_update", 0)})
               ELSE user_activity
          /\ reqs' = [reqs EXCEPT ![q] =
                 respond(json([req EXCEPT !.user = updatedUser,
                                          !.logged = IF b /\ supabase THEN "ok" ELSE "none"],
                              updatedUser), 200, "", NoToken)]
          /\ UNCHANGED console
  /\ UNCHANGED <<supabase, env, clock, presented, claimVars, user_tournaments>>

\* getDashboardData of auth.js; a null user makes the destructuring throw
getDashboardData(q, t) ==
  /\ env.backend = "backend"
  /\ Arrives(q)
  /\ LET req == serve(q, "getDashboardData", t, NoBody)
         user == getUser(t.userId) IN
     /\ reqs' = [reqs EXCEPT ![q] =
          IF user.kind # "row" THEN respond(req, 500, "Failed to get dashboard data", NoToken)
          ELSE respond(json([req EXCEPT !.user = user.row], user.row), 200, "", NoToken)]
     /\ console' = IF user.kind # "row"
                   THEN console (+) SetToBag({"Dashboard data error"}) ELSE console
  /\ UNCHANGED <<supabase, user_activity, env, accounts, clock, presented, claimVars, user_tournaments>>

\* joinTournament of part_000: the insert into user_tournaments, refused for a
\* pair that is there already, then logActivity with a delta of 10
joinTournament(q, t, tournamentId) ==
  /\ env.backend = "unnamed"
  /\ Arrives(q)
  /\ LET req == serve(q, "joinTournament", t, NoBody)
         row == <<t.userId, tournamentId>> IN
     IF ~supabase
     THEN /\ reqs' = [reqs EXCEPT ![q] = respond(req, 500, "Database not configured", NoToken)]
          /\ UNCHANGED <<user_tournaments, user_activity>>
     ELSE IF row \in user_tournaments
     THEN /\ reqs' = [reqs EXCEPT ![q] = respond(req, 500, "duplicate key", NoToken)]
          /\ UNCHANGED <<user_tournaments, user_activity>>
     ELSE /\ user_tournaments' = user_tournaments \cup {row}
          /\ user_activity' =
               user_activity (+) SetToBag({tournamentEntry(t.userId, tournamentId)})
          /\ reqs' = [reqs EXCEPT ![q] = respond([req EXCEPT !.logged = "ok"], 200, "", NoToken)]
  /\ UNCHANGED <<supabase, console, env, accounts, clock, presented, claimVars>>

\* the migration of part_006 runs on a store at rest
Migrate ==
  /\ supabase
  /\ ~migrated
  /\ \A q \in Reqs : reqs[q].pc \in {"idle", "done"}
  /\ accounts' = [i \in DOMAIN accounts |-> renamed(accounts[i])]
  /\ UNCHANGED <<supabase, user_activity, console, env, reqs, clock, presented, claimVars, user_tournaments>>

\* request bodies
Extras == {[role |-> "", points |-> 0], [role |-> "admin", points |-> 5000]}
RegisterBodies ==
  {[username |-> "neo", email |-> e, password |-> "secret1", role |-> x.role, points |-> x.points] :
     e \in {"neo@x.io", "Neo@X.io ", "admin@gmail.com"}, x \in Extras}
    \cup {[username |-> "neo", email |-> "neo@x.io", password |-> "12345", role |-> "", points |-> 0],
          [username |-> "", email |-> "neo@x.io", password |-> "secret1", role |-> "", points |-> 0]}
LoginBodies ==
  {[NoBody EXCEPT !.email = e, !.password = p] :
     e \in {"neo@x.io", "admin@gmail.com", "trinity@x.io"}, p \in {"secret1", "Admin@123"}}
    \cup {[NoBody EXCEPT !.email = "neo@x.io"]}

InitAuth ==
  /\ supabase \in BOOLEAN
  /\ env \in [backend : Backends, JWT_SECRET : {""}]
  /\ accounts = <<AdminRow>>
  /\ reqs = [q \in Reqs |-> IdleReq]
  /\ clock = 0
  /\ presented = NoPresented
  /\ user_activity = EmptyBag
  /\ console = EmptyBag
  /\ NoClaims

\* concurrent registrations and logins
NextAuth ==
  \/ \E q \in Reqs, body \in RegisterBodies : register(q, body)
  \/ \E q \in Reqs, body \in LoginBodies : login(q, body)
  \/ \E q \in Reqs : RegisterCreate(q) \/ RegisterLog(q) \/ LoginLog(q)

SpecAuth == InitAuth /\ [][NextAuth]_vars

TokenRegisterBodies ==
  {[username |-> "neo", email |-> "neo@x.io", password |-> "secret1", role |-> "", points |-> 0]}
TokenLoginBodies ==
  {[NoBody EXCEPT !.email = "admin@gmail.com", !.password = "Admin@123"]}

InitToken ==
  /\ supabase \in BOOLEAN
  /\ env \in [backend : Backends, JWT_SECRET : {"", "configured-secret"}]
  /\ accounts = <<AdminRow>>
  /\ reqs = [q \in Reqs |-> IdleReq]
  /\ clock = 0
  /\ presented = NoPresented
  /\ user_activity = EmptyBag
  /\ console = EmptyBag
  /\ NoClaims

\* requests served one at a time while days pass, and tokens presented to the
\* middleware of the backend that issued them
NextToken ==
  \/ \E q \in Reqs, body \in TokenRegisterBodies : registerSeq(q, body)
  \/ \E q \in Reqs, body \in TokenLoginBodies : loginSeq(q, body)
  \/ \E q \in Reqs : RegisterCreate(q) \/ RegisterLog(q) \/ LoginLog(q)
  \/ Tick
  \/ \E h \in Headers : authMiddleware(h) \/ auth(h)

SpecToken == InitToken /\ [][NextToken]_vars

\* profile requests: a name, an avatar, and fields a client adds to raise its
\* role or its balance
ProfileBodies ==
  {[NoBody EXCEPT !.name = n, !.username = n, !.avatar = a, !.role = x.role,
                  !.points = x.points] :
     n \in {"", "Neo "}, a \in {"", "a.png"}, x \in Extras}

InitProfile ==
  /\ supabase \in BOOLEAN
  /\ env \in [backend : Backends, JWT_SECRET : {"configured-secret"}]
  /\ accounts = <<AdminRow>>
  /\ reqs = [q \in Reqs |-> IdleReq]
  /\ clock = 0
  /\ presented = NoPresented
  /\ user_activity = EmptyBag
  /\ console = EmptyBag
  /\ NoClaims

\* registrations, logins and the requests behind the middleware, one at a
\* time, on a store that may be migrated in between
NextProfile ==
  \/ \E q \in Reqs, body \in TokenRegisterBodies : registerSeq(q, body)
  \/ \E q \in Reqs, body \in TokenLoginBodies : loginSeq(q, body)
  \/ \E q \in Reqs : RegisterCreate(q) \/ RegisterLog(q) \/ LoginLog(q)
  \/ \E q \in Reqs, t \in Verified : getProfile(q, t)
  \/ \E q \in Reqs, t \in Verified, body \in ProfileBodies : updateProfile(q, t, body)
  \/ \E q \in Reqs, t \in Verified : getDashboardData(q, t)
  \/ Migrate

SpecProfile == InitProfile /\ [][NextProfile]_vars

\* the ledger: accounts and their activity next to the reward claims
InitLedger ==
  /\ supabase \in BOOLEAN
  /\ env \in [backend : Backends, JWT_SECRET : {"configured-secret"}]
  /\ accounts = <<AdminRow>>
  /\ reqs = [q \in Reqs |-> IdleReq]
  /\ clock = 0
  /\ presented = NoPresented
  /\ user_activity = EmptyBag
  /\ console = EmptyBag
  /\ user_tournaments = {}
  /\ users = [u \in Users |-> [points |-> MaxPoints]]
  /\ rewards = [r \in Rewards |-> [points_required |-> UnitCost, stock |-> MaxStock,
                                    is_active |-> TRUE]]
  /\ user_rewards = EmptyBag
  /\ calls = [c \in Calls |-> IdleCall]
  /\ db0 = [users |-> users, rewards |-> rewards]

LedgerBodies == {[NoBody EXCEPT !.name = "Neo ", !.username = "Neo ", !.avatar = "a.png"]}

NextLedger ==
  \/ \E q \in Reqs, body \in TokenRegisterBodies : registerSeq(q, body)
  \/ \E q \in Reqs, body \in TokenLoginBodies : loginSeq(q, body)
  \/ \E q \in Reqs : RegisterCreate(q) \/ RegisterLog(q) \/ LoginLog(q)
  \/ \E q \in Reqs, t \in Verified, body \in LedgerBodies : updateProfile(q, t, body)
  \/ \E q \in Reqs, t \in Verified, tournamentId \in Tournaments :
       joinTournament(q, t, tournamentId)
  \/ \E c \in Calls, u \in Users, r \in Rewards : claimRewardSeq(c, u, r)
  \/ Steps

SpecLedger == InitLedger /\ [][NextLedger]_vars

\* a registration followed by logins with the same address, as it was sent
\* or in another case and with blanks around it
RoundTripRegisterBodies ==
  {[username |-> "neo", email |-> e, password |-> "secret1", role |-> "", points |-> 0] :
     e \in {"neo@x.io", "Neo@X.io "}}
RoundTripLoginBodies ==
  {[NoBody EXCEPT !.email = e, !.password = p] :
     e \in {"neo@x.io", "Neo@X.io "}, p \in {"secret1", "Admin@123"}}

NextRoundTrip ==
  \/ \E q \in Reqs, body \in RoundTripRegisterBodies : registerSeq(q, body)
  \/ \E q \in Reqs, body \in RoundTripLoginBodies : loginSeq(q, body)
  \/ \E q \in Reqs : RegisterCreate(q) \/ RegisterLog(q) \/ LoginLog(q)

SpecRoundTrip == InitAuth /\ [][NextRoundTrip]_vars

\* the admin gate: a store with an admin, a moderator and a user, their
\* logins, and one request to an admin route
ModeratorRow ==
  [id |-> "id2", name |-> "mod", email |-> "mod@x.io", password |-> hash("secret1"),
   role |-> "moderator", points |-> 0, avatar |-> ""]
UserRow ==
  [id |-> "id3", name |-> "neo", email |-> "neo@x.io", password |-> hash("secret1"),
   role |-> "user", points |-> WelcomeBonus, avatar |-> ""]
GateLoginBodies ==
  {[NoBody EXCEPT !.email = "admin@gmail.com", !.password = "Admin@123"],
   [NoBody EXCEPT !.email = "mod@x.io", !.password = "secret1"],
   [NoBody EXCEPT !.email = "neo@x.io", !.password = "secret1"]}

InitGate ==
  /\ supabase = TRUE
  /\ env \in [backend : Backends, JWT_SECRET : {"configured-secret"}]
  /\ accounts = <<AdminRow, ModeratorRow, UserRow>>
  /\ reqs = [q \in Reqs |-> IdleReq]
  /\ clock = 0
  /\ presented = NoPresented
  /\ user_activity = EmptyBag
  /\ console = EmptyBag
  /\ NoClaims

NextGate ==
  \/ \E q \in Reqs, body \in GateLoginBodies : loginSeq(q, body)
  \/ \E q \in Reqs : LoginLog(q)
  \/ \E h \in Headers : adminAuth(h)
  \/ \E h \in Headers : authMiddleware(h)
  \/ adminMiddleware

SpecGate == InitGate /\ [][NextGate]_vars

\* ------------------------------------------------------ shared vocabulary
RECURSIVE Sum(_)
Sum(f) ==
  IF DOMAIN f = {} THEN 0
  ELSE LET x == CHOOSE y \in DOMAIN f : TRUE IN
       f[x] + Sum([y \in DOMAIN f \ {x} |-> f[y]])

Returned(c) == calls[c].pc = "returned"
Thrown(c) == calls[c].pc = "thrown"
AllComplete == \A c \in Calls : calls[c].pc \in {"idle", "returned", "thrown"}
NoWrites(c) ==
  /\ ~calls[c].data
  /\ calls[c].userW = "none"
  /\ calls[c].stockW = "none"
  /\ calls[c].logged = "none"
ClaimsOfReward(r) ==
  Sum([u \in UserIds |-> CopiesIn([user_id |-> u, reward_id |-> r], user_rewards)])
CostOfClaims(u) ==
  Sum([r \in Rewards |->
        CopiesIn([user_id |-> u, reward_id |-> r], user_rewards)
          * rewards[r].points_required])
ExpectedEntry(u, r) ==
  [user_id |-> u, reward_id |-> r, activity_type |-> "reward_claim",
   points_change |-> 0 - rewards[r].points_required]

\* ------------------------------------------------------------------- C1
\* C1: with the store configured, when the only two calls are claims by two distinct users, each with
\* enough points, for one reward whose stock started at 1, then once both have
\* finished exactly one has returned, the other has thrown "Reward out of
\* stock" or a conflict error, and the stock is 0.
C1_OneWinner ==
  \A c, d \in Calls :
    ( /\ c < d
      /\ supabase
      /\ Finished(c) /\ Finished(d)
      /\ \A e \in Calls \ {c, d} : calls[e].pc = "idle"
      /\ calls[c].userId \in Users /\ calls[d].userId \in Users
      /\ calls[c].userId # calls[d].userId
      /\ calls[c].rewardId \in Rewards
      /\ calls[c].rewardId = calls[d].rewardId
      /\ db0.rewards[calls[c].rewardId].stock = 1
      /\ db0.users[calls[c].userId].points >= db0.rewards[calls[c].rewardId].points_required
      /\ db0.users[calls[d].userId].points >= db0.rewards[calls[c].rewardId].points_required )
    => /\ Returned(c) # Returned(d)
       /\ \A e \in {c, d} :
            Thrown(e) => calls[e].error \in {"Reward out of stock", "Conflict"}
       /\ rewards[calls[c].rewardId].stock = 0

\* ------------------------------------------------------------------- C2
\* C2: in every reachable state every user's points balance is >= 0 and
\* every reward's stock is >= 0.
C2_NonNegative ==
  /\ \A u \in DOMAIN users : users[u].points >= 0
  /\ \A r \in DOMAIN rewards : rewards[r].stock >= 0

\* a claim has returned and left its user at 0 points and its reward at stock 0
C2_Witness ==
  \E c \in Calls :
    /\ Returned(c)
    /\ users[calls[c].userId].points = 0
    /\ rewards[calls[c].rewardId].stock = 0

\* ------------------------------------------------------------------- C3
\* C3: once every call has completed, each reward's initial stock minus its
\* final stock equals the number of Claim records created for that reward.
C3_StockMatchesClaims ==
  AllComplete =>
    \A r \in Rewards : db0.rewards[r].stock - rewards[r].stock = ClaimsOfReward(r)

\* ------------------------------------------------------------------- C4
\* C4: once every call has completed, the points removed from each user's
\* balance equal the sum of points_required over that user's Claim records,
\* and no two calls of one user have both committed a deduction computed from
\* the same balance read.
C4_PointsMatchClaims ==
  /\ AllComplete =>
       \A u \in Users : db0.users[u].points - users[u].points = CostOfClaims(u)
  /\ \A c, d \in Calls :
       ( /\ c # d
         /\ calls[c].userId = calls[d].userId
         /\ calls[c].userW = "ok" /\ calls[d].userW = "ok" )
       => calls[c].user.points # calls[d].user.points

\* ------------------------------------------------------------------- C5
\* C5: every write of a call's commit phase is made in a state where the
\* stored balance still covers the cost (Claim insert, points update) and the
\* stored stock is still positive (Claim insert, stock update).
C5_CommitGuard ==
  [][ \A c \in Calls :
        LET u == calls[c].userId
            r == calls[c].rewardId IN
        /\ (calls[c].pc = "inserting" /\ calls'[c].pc = "updating")
             => (users[u].points >= rewards[r].points_required /\ rewards[r].stock > 0)
        /\ (calls[c].userW = "pending" /\ calls'[c].userW = "ok")
             => users[u].points >= rewards[r].points_required
        /\ (calls[c].stockW = "pending" /\ calls'[c].stockW = "ok")
             => rewards[r].stock > 0 ]_vars

C7_NoPartialCommit ==
  \A c \in Calls :
    ( /\ Finished(c)
      /\ calls[c].stockW # "pending"
      /\ \A d \in Calls \ {c} : calls[d].pc = "idle"
      /\ \/ calls[c].error = "insert error"
         \/ calls[c].userW = "error"
         \/ calls[c].stockW = "error" )
    => /\ Thrown(c)
       /\ users = db0.users
       /\ rewards = db0.rewards
       /\ user_rewards = EmptyBag
       /\ user_activity = EmptyBag

\* ------------------------------------------------------------------- C8
\* C8: the points update of a call lowers the stored balance by the reward's
\* points_required, its stock update lowers the stored stock by 1, and the call
\* returns having created one Claim record and, in its last step, one Activity
\* entry.
C8_SuccessEffect ==
  [][ \A c \in Calls :
        LET u == calls[c].userId
            r == calls[c].rewardId IN
        /\ (calls[c].userW = "pending" /\ calls'[c].userW = "ok")
             => users'[u].points = users[u].points - rewards[r].points_required
        /\ (calls[c].stockW = "pending" /\ calls'[c].stockW = "ok")
             => rewards'[r].stock = rewards[r].stock - 1
        /\ (calls[c].pc = "inserting" /\ calls'[c].pc = "updating")
             => BagCardinality(user_rewards') = BagCardinality(user_rewards) + 1
        /\ (~Returned(c) /\ calls'[c].pc = "returned")
             => BagCardinality(user_activity') = BagCardinality(user_activity) + 1 ]_vars

\* ------------------------------------------------------------------- C9
\* C9 as stated: for every user and reward, the reward_claim entries with the
\* negated cost are exactly as many as the calls that returned for them, and
\* the log holds no other entry.
C9_OneEntryPerSuccess ==
  /\ \A u \in UserIds, r \in Rewards :
       CopiesIn(ExpectedEntry(u, r), user_activity)
         = Cardinality({c \in Calls :
             Returned(c) /\ calls[c].userId = u /\ calls[c].rewardId = r})
  /\ BagToSet(user_activity) \subseteq {ExpectedEntry(u, r) : u \in Users, r \in Rewards}

\* C9 amended: a returned call has attempted the append exactly once; the
\* reward_claim entries with the negated cost are exactly as many as the
\* returned calls whose append succeeded, so a returned call has one entry, or
\* none when its append failed, and never more.
C9_OneEntryPerLoggedSuccess ==
  /\ \A c \in Calls : Returned(c) <=> calls[c].logged \in {"ok", "error"}
  /\ \A u \in UserIds, r \in Rewards :
       CopiesIn(ExpectedEntry(u, r), user_activity)
         = Cardinality({c \in Calls :
             calls[c].logged = "ok" /\ calls[c].userId = u /\ calls[c].rewardId = r})
  /\ BagToSet(user_activity) \subseteq {ExpectedEntry(u, r) : u \in Users, r \in Rewards}

\* one call returned with its entry in the log, another returned after its
\* append failed
C9_Witness ==
  \E c, d \in Calls :
    /\ Returned(c) /\ calls[c].logged = "ok"
    /\ Returned(d) /\ calls[d].logged = "error"
    /\ BagCardinality(user_activity) = 1

\* ------------------------------------------------------------------ C10
\* C10: with requests served one at a time, a call that read a balance equal
\* to the cost is not refused for its balance; when it returns the stored
\* balance is 0; and the same user's next call for an existing reward throws
\* "Insufficient points" without writing anything.
C10_ExactBalance ==
  \A c \in Calls :
    LET exact == /\ calls[c].userRead /\ calls[c].rewardRead
                 /\ calls[c].reward.found
                 /\ calls[c].user.points = calls[c].reward.points_required IN
    /\ exact => calls[c].error # "Insufficient points"
    /\ (exact /\ Returned(c) /\ \A d \in Calls : d > c => calls[d].pc = "idle")
         => users[calls[c].userId].points = 0
    /\ \A d \in Calls :
         ( /\ d = c + 1
           /\ exact /\ Returned(c)
           /\ calls[d].userId = calls[c].userId
           /\ calls[d].rewardId \in Rewards
           /\ rewards[calls[d].rewardId].points_required > 0
           /\ Finished(d) )
         => (Thrown(d) /\ calls[d].error = "Insufficient points" /\ NoWrites(d))

\* a user claimed with an exactly sufficient balance and was then refused
C10_Witness ==
  \E c, d \in Calls :
    /\ d = c + 1
    /\ Returned(c)
    /\ calls[c].user.points = calls[c].reward.points_required
    /\ calls[d].userId = calls[c].userId
    /\ Thrown(d) /\ calls[d].error = "Insufficient points"
    /\ users[calls[c].userId].points = 0

\* ------------------------------------------------------------------ C11
\* C11: a call for a reward whose is_active is false throws a not-found error
\* whatever the user's points and the reward's stock are, having written
\* nothing, and no Claim record references a reward that is inactive.
C11_InactiveRefused ==
  /\ \A c \in Calls :
       ( /\ calls[c].userRead /\ calls[c].rewardRead
         /\ calls[c].reward.found /\ ~calls[c].reward.is_active )
       => /\ Thrown(c)
          /\ calls[c].error \in {"User or reward not found", "Reward not found"}
          /\ NoWrites(c)
  /\ \A u \in UserIds, r \in Rewards :
       CopiesIn([user_id |-> u, reward_id |-> r], user_rewards) > 0
         => rewards[r].is_active

C13_UniqueEmail ==
  /\ \A i, j \in 1..Len(accounts) :
       i # j => accounts[i].email # accounts[j].email
  /\ \A q \in Reqs :
       ( /\ reqs[q].op = "register" /\ reqs[q].pc = "done"
         /\ reqs[q].body.username # "" /\ reqs[q].body.email # ""
         /\ Len(reqs[q].body.password) >= 6 )
       => \/ reqs[q].status = 201
          \/ /\ reqs[q].status = 400
             /\ reqs[q].error \in {"User already exists with this email",
                                    "User already exists"}
  /\ \A q \in Reqs :
       (reqs[q].op = "register" /\ reqs[q].pc = "done" /\ reqs[q].status # 201)
         => (reqs[q].user = null /\ reqs[q].token = NoToken /\ reqs[q].logged = "none")

\* ------------------------------------------------------------------ C14
\* C14: a register that succeeded created a user with points 100 and role
\* 'user' whatever role and points its body carried, any stored row with that
\* id has them, and its token carries that user's id and the role 'user'.
C14_FixedRoleAndPoints ==
  \A q \in Reqs :
    (reqs[q].op = "register" /\ reqs[q].status = 201)
      => /\ reqs[q].user.role = "user"
         /\ reqs[q].user.points = 100
         /\ \A i \in 1..Len(accounts) :
              accounts[i].id = reqs[q].user.id
                => (accounts[i].role = "user" /\ accounts[i].points = 100)
         /\ reqs[q].token.wellFormed
         /\ reqs[q].token.userId = reqs[q].user.id
         /\ reqs[q].token.role = "user"

\* a register whose body asked for the admin role and 5000 points succeeded
\* and its row is stored
C14_Witness ==
  \E q \in Reqs :
    /\ reqs[q].op = "register" /\ reqs[q].status = 201
    /\ reqs[q].body.role = "admin" /\ reqs[q].body.points = 5000
    /\ \E i \in 1..Len(accounts) :
         accounts[i].id = reqs[q].user.id /\ accounts[i].role = "user"
    /\ reqs[q].token.role = "user"

\* ------------------------------------------------------------------ C15
\* C15: the middleware answers a malformed or forged token with "Invalid
\* token", a token issued by register or login and presented more than 7 days
\* after its issuance with "Token expired", and lets a token issued less than
\* 7 days before through.
C15_VerificationOutcomes ==
  presented.header.scheme = "bearer" =>
    LET t == presented.header.token IN
    /\ (~t.wellFormed \/ t \in Forged)
         => (presented.status = 401 /\ presented.error = "Invalid token")
    /\ (t \in Issued /\ presented.at > t.iat + 7)
         => (presented.status = 401 /\ presented.error = "Token expired")
    /\ (t \in Issued /\ presented.at < t.iat + 7)
         => presented.next = 1

\* ------------------------------------------------------------------ C16
\* C16: a token issued by register or login and presented unmodified before
\* its expiry is let through, and the user id and role the middleware recovers
\* are those of the user it was issued to.
C16_RoundTrip ==
  \A q \in Reqs :
    ( /\ reqs[q].token.wellFormed
      /\ presented.header.scheme = "bearer"
      /\ presented.header.token = reqs[q].token
      /\ presented.at < reqs[q].token.exp )
    => /\ presented.next = 1
       /\ presented.user.userId = reqs[q].user.id
       /\ presented.user.role = reqs[q].user.role

\* ------------------------------------------------------------------ C17
\* C17: a points update or stock update that finds the stored value different
\* from the value its call read changes no table, and sends the call back to
\* re-read or, once its attempts are used up, makes it throw a conflict error.
C17_StaleWriteRetried ==
  [][ \A c \in Calls :
        LET u == calls[c].userId
            r == calls[c].rewardId
            stalePoints == /\ calls[c].userW = "pending" /\ calls'[c].userW # "pending"
                           /\ users[u].points # calls[c].user.points
            staleStock == /\ calls[c].stockW = "pending" /\ calls'[c].stockW # "pending"
                          /\ rewards[r].stock # calls[c].reward.stock IN
        (stalePoints \/ staleStock)
          => /\ tables' = tables
             /\ calls'[c].pc \in {"reading", "thrown"}
             /\ calls'[c].pc = "thrown" => calls'[c].error = "Conflict" ]_vars

\* ------------------------------------------------------------------ C18
\* C18: a stock update is applied only when the stored stock is the stock its
\* call read; otherwise it is rejected as stale and the stored stock is
\* unchanged.
C18_StockWriteExpectsRead ==
  [][ \A c \in Calls :
        LET r == calls[c].rewardId IN
        (calls[c].stockW = "pending" /\ calls'[c].stockW # "pending")
          => IF rewards[r].stock = calls[c].reward.stock
             THEN TRUE
             ELSE rewards' = rewards /\ calls'[c].stockW = "stale" ]_vars

\* ------------------------------------------------------------------ C19
\* C19: a finished call reports the first failing check in the order user
\* existence, reward existence, balance, stock, and the four failures are
\* pairwise distinct: an absent user gives the store's no-row error whatever
\* the reward is, an absent reward gives "User or reward not found", and too
\* few points give "Insufficient points" even when the stock is 0.
C19_FirstFailingCheck ==
  /\ Cardinality({"PGRST116", "User or reward not found", "Insufficient points",
                  "Reward out of stock"}) = 4
  /\ \A c \in Calls :
       (Finished(c) /\ supabase) =>
         LET user == calls[c].user
             reward == calls[c].reward IN
         /\ calls[c].userId \notin DOMAIN users
              => (Thrown(c) /\ calls[c].error = "PGRST116")
         /\ (calls[c].userId \in DOMAIN users /\ calls[c].rewardId \notin DOMAIN rewards)
              => (Thrown(c) /\ calls[c].error = "User or reward not found")
         /\ (user.found /\ reward.found /\ user.points < reward.points_required)
              => (Thrown(c) /\ calls[c].error = "Insufficient points")
         /\ (user.found /\ reward.found /\ user.points >= reward.points_required
               /\ reward.stock <= 0)
              => (Thrown(c) /\ calls[c].error = "Reward out of stock")

\* a user with too few points was refused for the balance on a reward whose
\* stock was 0, and a call for an absent user and an absent reward got the
\* no-row error
C19_Witness ==
  \E c, d \in Calls :
    /\ Thrown(c) /\ calls[c].error = "Insufficient points"
    /\ calls[c].reward.found /\ calls[c].reward.stock = 0
    /\ calls[c].user.points < calls[c].reward.points_required
    /\ Thrown(d) /\ calls[d].error = "PGRST116"
    /\ calls[d].userId = AbsentUser /\ calls[d].rewardId = AbsentReward

\* ------------------------------------------------------------------ C20
\* C20: a call whose Activity append failed has returned its Claim record, has
\* its Claim row and its points update in place, and console.error holds one
\* "Activity logging error" line per failed append.
C20_LogFailureReported ==
  /\ \A c \in Calls :
       calls[c].logged = "error"
         => /\ Returned(c)
            /\ calls[c].data
            /\ calls[c].userW = "ok"
            /\ CopiesIn(claimRow(calls[c]), user_rewards) >= 1
  /\ CopiesIn("Activity logging error", console)
       = Cardinality({c \in Calls : calls[c].logged = "error"})

\* a call returned after its append failed: the Claim row, the lowered balance
\* and the lowered stock are stored, the log is empty and the console has the
\* report
C20_Witness ==
  \E c \in Calls :
    LET u == calls[c].userId
        r == calls[c].rewardId IN
    /\ Returned(c) /\ calls[c].logged = "error"
    /\ CopiesIn(claimRow(calls[c]), user_rewards) = 1
    /\ users[u].points = db0.users[u].points - rewards[r].points_required
    /\ rewards[r].stock = db0.rewards[r].stock - 1
    /\ user_activity = EmptyBag
    /\ CopiesIn("Activity logging error", console) = 1

\* ------------------------------------------------------------------ C21
\* C21: for every register that succeeded, the activity log holds exactly one
\* registration entry for the new user, whose points delta is the points the
\* user was created with.
C21_RegistrationLogged ==
  \A q \in Reqs :
    (reqs[q].op = "register" /\ reqs[q].status = 201)
      => CopiesIn(activityEntry(reqs[q].user.id, "registration", reqs[q].user.points),
                  user_activity) = 1

\* ------------------------------------------------------------------ C22
\* C22: a register whose body lacks username, email or password, or whose
\* password has fewer than 6 characters, is answered 400 with the validation
\* message, also when its email is already taken; it has looked nothing up,
\* has no user and no token, has logged nothing, and no stored row and no
\* registration entry comes from it.
C22_ValidationFirst ==
  LET invalid(q) == /\ reqs[q].op = "register" /\ reqs[q].pc # "idle"
                    /\ \/ reqs[q].body.username = "" \/ reqs[q].body.email = ""
                       \/ reqs[q].body.password = ""
                       \/ Len(reqs[q].body.password) < 6 IN
  /\ \A q \in Reqs :
       invalid(q)
         => /\ reqs[q].pc = "done"
            /\ reqs[q].status = 400
            /\ reqs[q].error \in {"Username, email, and password are required",
                                   "All fields are required",
                                   "Password must be at least 6 characters"}
            /\ reqs[q].existingUser = null
            /\ reqs[q].user = null
            /\ reqs[q].token = NoToken
            /\ reqs[q].logged = "none"
  /\ \A i \in 2..Len(accounts) :
       \E q \in Reqs : ~invalid(q) /\ reqs[q].user = accounts[i]
  /\ \A e \in BagToSet(user_activity) :
       e.activity_type = "registration"
         => \E q \in Reqs : ~invalid(q) /\ reqs[q].user.id = e.user_id

\* a register with a 5-character password was refused for the password
\* although another register had just bound its email
C22_Witness ==
  \E q1, q2 \in Reqs :
    /\ reqs[q1].op = "register" /\ reqs[q1].status = 201
    /\ reqs[q1].user.email = "neo@x.io"
    /\ Len(accounts) = 2 /\ accounts[2].email = "neo@x.io"
    /\ reqs[q2].op = "register" /\ reqs[q2].pc = "done"
    /\ reqs[q2].body.email = "neo@x.io" /\ reqs[q2].body.password = "12345"
    /\ reqs[q2].status = 400
    /\ reqs[q2].error = "Password must be at least 6 characters"

\* ------------------------------------------------------------------ C23
\* C23: the login entries of a user, each with points delta 0, are as many as
\* that user's logins that succeeded, and a login that succeeded has left the
\* stored user and every reward as they were.
C23_LoginLogged ==
  \A q \in Reqs :
    (reqs[q].op = "login" /\ reqs[q].status = 200)
      => /\ CopiesIn(activityEntry(reqs[q].user.id, "login", 0), user_activity)
              = Cardinality({p \in Reqs : /\ reqs[p].op = "login"
                                          /\ reqs[p].status = 200
                                          /\ reqs[p].user.id = reqs[q].user.id})
         /\ \A i \in 1..Len(accounts) :
              accounts[i].id = reqs[q].user.id
                => (accounts[i].points = reqs[q].user.points
                      /\ accounts[i].role = reqs[q].user.role)
         /\ rewards = db0.rewards

\* ------------------------------------------------------------------ C24
\* C24: a step of updateProfile, login, getProfile or getDashboardData adds no
\* user and leaves the points and the role of every user as they were,
\* whatever the request body carries; what updateProfile changes in a row is
\* its name and its avatar at most.
C24_ProfileFrame ==
  [][(\E q \in Reqs :
        /\ reqs'[q] # reqs[q]
        /\ reqs'[q].op \in {"updateProfile", "login", "getProfile", "getDashboardData"})
       => /\ users' = users
          /\ Len(accounts') = Len(accounts)
          /\ \A i \in 1..Len(accounts) :
               \A f \in DOMAIN accounts[i] \ {"name", "avatar"} :
                 f \in DOMAIN accounts'[i] /\ accounts'[i][f] = accounts[i][f]]_vars

\* a registered user has sent role 'admin' and 5000 points with a new name,
\* and the stored row has the new name
C24_Witness ==
  \E q \in Reqs, i \in 1..Len(accounts) :
    /\ reqs[q].op = "updateProfile" /\ reqs[q].status = 200
    /\ reqs[q].body.role = "admin" /\ reqs[q].body.points = 5000
    /\ accounts[i].id = reqs[q].userId
    /\ accounts[i].name = "Neo" /\ accounts[i].role = "user"
    /\ accounts[i].points = WelcomeBonus

\* ------------------------------------------------------------------ C25
\* C25: across register, login, updateProfile, joinTournament and claimReward
\* no Claim record and no Activity Entry is removed or changed: every record
\* stays in its table with at least as many copies as before the step.
C25_AppendOnly ==
  [][/\ \A e \in BagToSet(user_rewards) :
          CopiesIn(e, user_rewards') >= CopiesIn(e, user_rewards)
     /\ \A e \in BagToSet(user_activity) :
          CopiesIn(e, user_activity') >= CopiesIn(e, user_activity)
     /\ user_tournaments \subseteq user_tournaments']_vars

\* a tournament was joined and a reward claimed, both on record, and a later
\* request has been answered
C25_Witness ==
  /\ \E q \in Reqs : reqs[q].op = "joinTournament" /\ reqs[q].status = 200
  /\ \E e \in BagToSet(user_activity) : e.activity_type = "tournament_join"
  /\ \E e \in BagToSet(user_activity) : e.activity_type = "reward_claim"
  /\ user_rewards # EmptyBag
  /\ \E c \in Calls : Returned(c)

\* ------------------------------------------------------------------ C26
\* C26: when every request and every claim has been answered, the balance of
\* each user is the balance the user started from plus the sum of the
\* points_change of the user's Activity Entries (registration +100,
\* tournament_join +10, reward_claim minus the cost, the others 0).
Deltas(userId) ==
  LET own == {e \in BagToSet(user_activity) : e.user_id = userId} IN
  Sum([e \in own |-> e.points_change * CopiesIn(e, user_activity)])
C26_LedgerConsistency ==
  (AllComplete /\ \A q \in Reqs : reqs[q].pc \in {"idle", "done"})
    => /\ \A i \in 1..Len(accounts) :
            accounts[i].points
              = (IF i = 1 THEN AdminRow.points ELSE 0) + Deltas(accounts[i].id)
       /\ \A u \in Users : users[u].points = db0.users[u].points + Deltas(u)

\* ------------------------------------------------------------------ C27
\* C27: when register has succeeded, a later login with the same password and
\* the same email, in any case and with blanks around it, succeeds, and its
\* token carries the id of the user that register created; with and without
\* a configured store.
C27_RegisterThenLogin ==
  \A q1, q2 \in Reqs :
    (/\ q1 < q2
     /\ reqs[q1].op = "register" /\ reqs[q1].status = 201
     /\ reqs[q2].op = "login" /\ reqs[q2].pc = "done"
     /\ toLowerCaseTrim(reqs[q2].body.email) = toLowerCaseTrim(reqs[q1].body.email)
     /\ reqs[q2].body.password = reqs[q1].body.password)
      => /\ reqs[q2].status = 200
         /\ reqs[q2].token.userId = reqs[q1].user.id

\* ------------------------------------------------------------------ C28
\* C28: the middleware calls next() at most once, and only for a Bearer token
\* that jwt.verify accepted, with req.user set to the claims of that token; a
\* request without Authorization header, without token part, or with a token
\* that fails verification is answered 401 and does not reach next().
C28_NextOnlyVerified ==
  presented.by # "" =>
    LET h == presented.header
        ok == h.scheme = "bearer"
                /\ verify(h.token, verifyingSecret, presented.at) = "decoded" IN
    /\ presented.next <= 1
    /\ presented.next = 1
         => /\ ok
            /\ presented.status = 0
            /\ presented.user = [userId |-> h.token.userId, role |-> h.token.role]
    /\ ~ok => (presented.status = 401 /\ presented.next = 0)

\* ------------------------------------------------------------------ C29
\* C29: a request to an admin route reaches the handler exactly when its token
\* verified and carries the role admin or moderator; a verified token with the
\* role user is answered 403; adminAuth and authMiddleware followed by
\* adminMiddleware decide alike.
C29_AdminGate ==
  LET h == presented.header
      verified == h.scheme = "bearer"
                    /\ verify(h.token, verifyingSecret, presented.at) = "decoded"
      admitted == \/ presented.by = "adminAuth" /\ presented.next = 1
                  \/ presented.by = "adminMiddleware" /\ presented.next = 2 IN
  presented.by \in {"adminAuth", "adminMiddleware"}
    => /\ admitted <=> (verified /\ h.token.role \in {"admin", "moderator"})
       /\ (verified /\ h.token.role = "user") => (presented.status = 403 /\ ~admitted)

\* ------------------------------------------------------------------ C30
\* C30: the user object of every 2xx response of register, login, getProfile,
\* updateProfile and getDashboardData has no field that holds the stored
\* password hash, whichever row the store returned.
C30_NoHashInResponse ==
  \A q \in Reqs :
    (reqs[q].status \in 200..299 /\ reqs[q].json # NoJson)
      => DOMAIN reqs[q].json \cap {"password", "password_hash"} = {}

TypeOK ==
  /\ supabase \in BOOLEAN
  /\ DOMAIN users = Users
  /\ DOMAIN rewards = Rewards
  /\ \A c \in Calls : calls[c].pc \in
       {"idle", "reading", "inserting", "updating", "logging", "returned", "thrown"}
====
